---- MODULE Spec2Model ----
(***************************************************************************)
(* CV Analyzer Pro (src/app.py): the analysis pipeline.                    *)
(*                                                                         *)
(*   - extract_text_from_pdf and the sidebar that calls it                 *)
(*   - call_gemini_api and the three generate_* stages                     *)
(*   - parse_json_safely (fence stripping + json.loads)                    *)
(*   - the analysis run block and the display gate over st.session_state   *)
(*                                                                         *)
(* Text is a sequence of one-character strings, so that strip(),           *)
(* startswith(), endswith(), slicing, json.loads and json.dumps are        *)
(* computed character by character as the Python code computes them.       *)
(***************************************************************************)
EXTENDS Integers, Sequences, FiniteSets, TLC

VARIABLES
    \* ---- st.session_state (src/app.py:338-343)
    analysis_complete, fit_score_result, snapshot_result,
    interview_kit_result, snapshot_json,
    \* ---- the script run in progress: its locals and its position
    pc, cv_text, jd_text, analyze_button,
    \* ---- history of the runs (observation only)
    run, calls, origin, ended,
    \* ---- parse_json_safely applied to one raw response
    data, json_string, cleaned, parse_result, parse_pc,
    \* ---- extract_text_from_pdf applied to one upload
    uploaded_file, extracted, st_errors, pdf_pc

vars == <<analysis_complete, fit_score_result, snapshot_result,
          interview_kit_result, snapshot_json,
          pc, cv_text, jd_text, analyze_button,
          run, calls, origin, ended,
          data, json_string, cleaned, parse_result, parse_pc,
          uploaded_file, extracted, st_errors, pdf_pc>>

orchVars == <<analysis_complete, fit_score_result, snapshot_result,
              interview_kit_result, snapshot_json,
              pc, cv_text, jd_text, analyze_button,
              run, calls, origin, ended>>

parseVars == <<data, json_string, cleaned, parse_result, parse_pc>>

pdfVars == <<uploaded_file, extracted, st_errors, pdf_pc>>

-----------------------------------------------------------------------------
(* Bounds of the model *)

\* how many chunks a raw model response is assembled from
MaxChunks == 3

\* how many analysis runs one session starts
MaxRuns == 2

\* how many pages an uploaded document holds
MaxPages == 2

\* how many entries a list field of a candidate snapshot holds
MaxList == 2

-----------------------------------------------------------------------------
(* Characters and Python str operations *)

\* the backtick (the module's lexer accepts no backtick inside a string)
BT == "<bt>"
NL == "\n"
SP == " "
QT == "\""
BS == "\\"

\* the whitespace str.strip() removes (of the characters the model uses)
Whitespace == {SP, NL}

StartsWith(s, p) == Len(s) >= Len(p) /\ SubSeq(s, 1, Len(p)) = p

EndsWith(s, p) == Len(s) >= Len(p) /\ SubSeq(s, Len(s) - Len(p) + 1, Len(s)) = p

\* s[n:]
DropFirst(s, n) == SubSeq(s, n + 1, Len(s))

\* s[:-n]
DropLast(s, n) == SubSeq(s, 1, Len(s) - n)

RECURSIVE LStrip(_)
LStrip(s) == IF s /= <<>> /\ Head(s) \in Whitespace THEN LStrip(Tail(s)) ELSE s

RECURSIVE RStrip(_)
RStrip(s) == IF s /= <<>> /\ s[Len(s)] \in Whitespace
             THEN RStrip(DropLast(s, 1)) ELSE s

\* str.strip()
Strip(s) == RStrip(LStrip(s))

-----------------------------------------------------------------------------
(* Python values: None, bool, int, str, list, dict.  One record shape for  *)
(* all of them, so that any two values can be compared.                    *)

PyVal(t, n, s, keys, kids) == [t |-> t, n |-> n, s |-> s, keys |-> keys, kids |-> kids]

PyNone == PyVal("None", 0, <<>>, <<>>, <<>>)
PyBool(b) == PyVal("bool", IF b THEN 1 ELSE 0, <<>>, <<>>, <<>>)
PyInt(n) == PyVal("int", n, <<>>, <<>>, <<>>)
PyStr(s) == PyVal("str", 0, s, <<>>, <<>>)
PyList(kids) == PyVal("list", 0, <<>>, <<>>, kids)
\* dict: keys in insertion order, kids[i] the value of keys[i]
PyDict(keys, kids) == PyVal("dict", 0, <<>>, keys, kids)

\* bool(v), as `if v:` evaluates it
Truthy(v) ==
    CASE v.t = "None" -> FALSE
      [] v.t = "bool" -> v.n = 1
      [] v.t = "int" -> v.n /= 0
      [] v.t = "str" -> v.s /= <<>>
      [] v.t = "list" -> v.kids /= <<>>
      [] v.t = "dict" -> v.keys /= <<>>

\* d[k] = v on a dict: a repeated key keeps its place and takes the new value
DictSet(d, k, v) ==
    IF \E i \in 1..Len(d.keys) : d.keys[i] = k
    THEN LET i == CHOOSE j \in 1..Len(d.keys) : d.keys[j] = k
         IN PyDict(d.keys, [d.kids EXCEPT ![i] = v])
    ELSE PyDict(Append(d.keys, k), Append(d.kids, v))

-----------------------------------------------------------------------------
(* json.loads: the standard decoder (strict), on the grammar the model     *)
(* uses: objects, arrays, strings with the escapes \" \\ \/ \n, unsigned   *)
(* integers, and the literals null, true, false.                           *)

Digits == <<"0", "1", "2", "3", "4", "5", "6", "7", "8", "9">>

IsDigit(c) == \E d \in 1..10 : Digits[d] = c

DigitVal(c) == (CHOOSE d \in 1..10 : Digits[d] = c) - 1

\* whitespace between JSON tokens
JsonWs == {SP, NL}

RECURSIVE SkipWs(_, _)
SkipWs(s, i) == IF i <= Len(s) /\ s[i] \in JsonWs THEN SkipWs(s, i + 1) ELSE i

\* s[i:].startswith(p)
StartsWithAt(s, i, p) ==
    i + Len(p) - 1 <= Len(s) /\ SubSeq(s, i, i + Len(p) - 1) = p

DecodeFail == [ok |-> FALSE, v |-> PyNone, i |-> 0]

Decoded(v, i) == [ok |-> TRUE, v |-> v, i |-> i]

\* py_scanstring from the character after the opening quote
RECURSIVE ScanString(_, _, _)
ScanString(s, i, acc) ==
    IF i > Len(s) THEN DecodeFail
    ELSE IF s[i] = QT THEN Decoded(PyStr(acc), i + 1)
    ELSE IF s[i] = BS THEN
        IF i + 1 > Len(s) THEN DecodeFail
        ELSE IF s[i + 1] \in {QT, BS, "/"} THEN ScanString(s, i + 2, Append(acc, s[i + 1]))
        ELSE IF s[i + 1] = "n" THEN ScanString(s, i + 2, Append(acc, NL))
        ELSE DecodeFail
    ELSE IF s[i] = NL THEN DecodeFail
    ELSE ScanString(s, i + 1, Append(acc, s[i]))

\* the digits of NUMBER_RE's integer part after its first digit
RECURSIVE ScanDigits(_, _, _)
ScanDigits(s, i, n) ==
    IF i <= Len(s) /\ IsDigit(s[i])
    THEN ScanDigits(s, i + 1, 10 * n + DigitVal(s[i]))
    ELSE Decoded(PyInt(n), i)

RECURSIVE ScanOnce(_, _)
RECURSIVE ScanArray(_, _, _)
RECURSIVE ScanObject(_, _, _)

\* JSONArray after one more value is due at i (i is past the white space)
ScanArray(s, i, acc) ==
    LET item == ScanOnce(s, i)
        j == SkipWs(s, item.i)
    IN IF ~item.ok \/ j > Len(s) THEN DecodeFail
       ELSE IF s[j] = "]" THEN Decoded(PyList(Append(acc, item.v)), j + 1)
       ELSE IF s[j] = "," THEN ScanArray(s, SkipWs(s, j + 1), Append(acc, item.v))
       ELSE DecodeFail

\* JSONObject after one more "key": value pair is due at i
ScanObject(s, i, acc) ==
    IF i > Len(s) \/ s[i] /= QT THEN DecodeFail
    ELSE
    LET key == ScanString(s, i + 1, <<>>)
        c == SkipWs(s, key.i)
        item == ScanOnce(s, SkipWs(s, c + 1))
        j == SkipWs(s, item.i)
    IN IF ~key.ok \/ c > Len(s) THEN DecodeFail
       ELSE IF s[c] /= ":" THEN DecodeFail
       ELSE IF ~item.ok \/ j > Len(s) THEN DecodeFail
       ELSE IF s[j] = "}" THEN Decoded(DictSet(acc, key.v.s, item.v), j + 1)
       ELSE IF s[j] = "," THEN ScanObject(s, SkipWs(s, j + 1), DictSet(acc, key.v.s, item.v))
       ELSE DecodeFail

\* scan_once: one JSON value starting exactly at i
ScanOnce(s, i) ==
    IF i > Len(s) THEN DecodeFail
    ELSE IF s[i] = QT THEN ScanString(s, i + 1, <<>>)
    ELSE IF s[i] = "{" THEN
        LET j == SkipWs(s, i + 1)
        IN IF j <= Len(s) /\ s[j] = "}" THEN Decoded(PyDict(<<>>, <<>>), j + 1)
           ELSE ScanObject(s, j, PyDict(<<>>, <<>>))
    ELSE IF s[i] = "[" THEN
        LET j == SkipWs(s, i + 1)
        IN IF j <= Len(s) /\ s[j] = "]" THEN Decoded(PyList(<<>>), j + 1)
           ELSE ScanArray(s, j, <<>>)
    ELSE IF StartsWithAt(s, i, <<"n", "u", "l", "l">>) THEN Decoded(PyNone, i + 4)
    ELSE IF StartsWithAt(s, i, <<"t", "r", "u", "e">>) THEN Decoded(PyBool(TRUE), i + 4)
    ELSE IF StartsWithAt(s, i, <<"f", "a", "l", "s", "e">>) THEN Decoded(PyBool(FALSE), i + 5)
    ELSE IF s[i] = "0" THEN Decoded(PyInt(0), i + 1)
    ELSE IF IsDigit(s[i]) THEN ScanDigits(s, i + 1, DigitVal(s[i]))
    ELSE DecodeFail

\* json.loads(s): [ok |-> TRUE, v |-> the value], or ok = FALSE where it
\* raises JSONDecodeError (no value, or extra data after the value)
Loads(s) ==
    LET r == ScanOnce(s, SkipWs(s, 1))
    IN IF r.ok /\ SkipWs(s, r.i) = Len(s) + 1
       THEN [ok |-> TRUE, v |-> r.v]
       ELSE [ok |-> FALSE, v |-> PyNone]

-----------------------------------------------------------------------------
(* json.dumps(data, indent=2, ensure_ascii=False)                          *)

RECURSIVE Spaces(_)
Spaces(n) == IF n = 0 THEN <<>> ELSE <<SP>> \o Spaces(n - 1)

RECURSIVE IntChars(_)
IntChars(n) == IF n < 10 THEN <<Digits[n + 1]>>
               ELSE IntChars(n \div 10) \o <<Digits[(n % 10) + 1]>>

\* encode_basestring: the body of a JSON string literal
RECURSIVE EscapeChars(_)
EscapeChars(s) ==
    IF s = <<>> THEN <<>>
    ELSE (IF Head(s) = QT THEN <<BS, QT>>
          ELSE IF Head(s) = BS THEN <<BS, BS>>
          ELSE IF Head(s) = NL THEN <<BS, "n">>
          ELSE <<Head(s)>>) \o EscapeChars(Tail(s))

Quoted(s) == <<QT>> \o EscapeChars(s) \o <<QT>>

RECURSIVE Dumps(_, _)
RECURSIVE DumpItems(_, _, _)

\* the members of a non-empty list or dict from the k-th on, one per line
DumpItems(v, k, level) ==
    LET one == (IF v.t = "dict" THEN Quoted(v.keys[k]) \o <<":", SP>> ELSE <<>>)
               \o Dumps(v.kids[k], level)
    IN IF k = Len(v.kids) THEN one
       ELSE one \o <<",", NL>> \o Spaces(2 * level) \o DumpItems(v, k + 1, level)

Dumps(v, level) ==
    CASE v.t = "None" -> <<"n", "u", "l", "l">>
      [] v.t = "bool" -> IF v.n = 1 THEN <<"t", "r", "u", "e">>
                         ELSE <<"f", "a", "l", "s", "e">>
      [] v.t = "int" -> IntChars(v.n)
      [] v.t = "str" -> Quoted(v.s)
      [] v.t = "list" ->
            IF v.kids = <<>> THEN <<"[", "]">>
            ELSE <<"[", NL>> \o Spaces(2 * (level + 1)) \o DumpItems(v, 1, level + 1)
                 \o <<NL>> \o Spaces(2 * level) \o <<"]">>
      [] v.t = "dict" ->
            IF v.kids = <<>> THEN <<"{", "}">>
            ELSE <<"{", NL>> \o Spaces(2 * (level + 1)) \o DumpItems(v, 1, level + 1)
                 \o <<NL>> \o Spaces(2 * level) \o <<"}">>

\* json_str of the JSON download
json_dumps(obj) == Dumps(obj, 0)

-----------------------------------------------------------------------------
(* parse_json_safely *)

Fence == <<BT, BT, BT>>
FenceJson == <<BT, BT, BT, "j", "s", "o", "n">>

\* RemoveFences without `if cleaned.startswith("```")`: only the
\* language-tagged opener is removed
RemoveFencesTaggedOnly(text) ==
    LET c1 == IF StartsWith(text, FenceJson) THEN DropFirst(text, 7) ELSE text
        c3 == IF EndsWith(c1, Fence) THEN DropLast(c1, 3) ELSE c1
    IN c3

\* the three `if`s that remove the markdown code block markers
RemoveFences(text) ==
    LET c1 == IF StartsWith(text, FenceJson) THEN DropFirst(text, 7) ELSE text
        c2 == IF StartsWith(c1, Fence) THEN DropFirst(c1, 3) ELSE c1
        c3 == IF EndsWith(c2, Fence) THEN DropLast(c2, 3) ELSE c2
    IN c3

\* the text handed to json.loads
Cleaned(raw) == Strip(RemoveFences(Strip(raw)))

\* str(e) of the JSONDecodeError
DecodeErrorText == <<"E", "x", "p", "e", "c", "t", "i", "n", "g">>

\* the pair (value, error) parse_json_safely returns
parse_json_safely(raw) ==
    LET r == Loads(Cleaned(raw))
    IN IF r.ok THEN [value |-> r.v, error |-> PyNone]
       ELSE [value |-> PyNone, error |-> PyStr(DecodeErrorText)]


-----------------------------------------------------------------------------
(* Raw responses parse_json_safely is applied to *)

\* pieces a model response is assembled from: fences, the language tag,
\* white space, JSON values of every type, and plain prose
Chunks ==
    { Fence,
      FenceJson,
      <<"j", "s", "o", "n">>,
      <<NL>>,
      <<"{", QT, "a", QT, ":", "1", "}">>,
      <<"{", "}">>,
      <<"n", "u", "l", "l">>,
      <<"[", "1", "]">>,
      <<QT, "x", QT>>,
      <<"x">> }

RECURSIVE ChunkTexts(_)
ChunkTexts(n) ==
    IF n = 0 THEN {<<>>}
    ELSE LET shorter == ChunkTexts(n - 1)
         IN shorter \cup {t \o c : t \in shorter, c \in Chunks}

\* the keys of the structure generate_candidate_snapshot asks for
SnapshotKeys ==
    << <<"n", "a", "m", "e">>,
       <<"e", "m", "a", "i", "l">>,
       <<"p", "h", "o", "n", "e">>,
       <<"l", "i", "n", "k", "e", "d", "i", "n">>,
       <<"s", "u", "m", "m", "a", "r", "y">>,
       <<"e", "x", "p", "e", "r", "i", "e", "n", "c", "e", "_", "y", "e", "a", "r", "s">>,
       <<"c", "u", "r", "r", "e", "n", "t", "_", "r", "o", "l", "e">>,
       <<"c", "u", "r", "r", "e", "n", "t", "_", "c", "o", "m", "p", "a", "n", "y">>,
       <<"s", "k", "i", "l", "l", "s">>,
       <<"t", "o", "o", "l", "s", "_", "t", "e", "c", "h", "n", "o", "l", "o", "g", "i", "e", "s">>,
       <<"e", "d", "u", "c", "a", "t", "i", "o", "n">>,
       <<"k", "e", "y", "_", "a", "c", "h", "i", "e", "v", "e", "m", "e", "n", "t", "s">>,
       <<"l", "a", "n", "g", "u", "a", "g", "e", "s">> >>

\* the keys of one entry of "education"
EducationKeys ==
    << <<"d", "e", "g", "r", "e", "e">>,
       <<"i", "n", "s", "t", "i", "t", "u", "t", "i", "o", "n">>,
       <<"y", "e", "a", "r">> >>

\* string values, with the characters json.dumps escapes and a fence
StrValues ==
    { <<"A">>, <<"a", QT, "b">>, <<BS, NL>>, Fence }

RECURSIVE ListsOf(_, _)
ListsOf(S, n) ==
    IF n = 0 THEN {<<>>}
    ELSE LET shorter == ListsOf(S, n - 1)
         IN shorter \cup {Append(l, x) : l \in {m \in shorter : Len(m) = n - 1}, x \in S}

EducationEntry ==
    PyDict(EducationKeys, <<PyStr(<<"B", "S", "c">>), PyStr(<<"U">>), PyStr(<<"2", "0", "1", "9">>)>>)

\* records of the shape of the candidate snapshot: every key present,
\* null for a missing scalar and [] for a missing list
SnapshotRecords ==
    { PyDict(SnapshotKeys,
             << PyStr(name), PyStr(<<"e", "@", "x">>), phone, PyNone,
                PyStr(<<"s">>), years, PyStr(<<"d", "e", "v">>), PyNone,
                PyList(skills), PyList(<<>>), PyList(education),
                PyList(<<PyStr(<<"w", "o", "n">>)>>), PyList(<<>>) >>) :
        name \in StrValues,
        phone \in {PyNone, PyStr(<<"5", "5", "5">>)},
        years \in {PyNone, PyInt(0), PyInt(12), PyStr(<<"5">>)},
        skills \in ListsOf({PyStr(<<"G", "o">>), PyStr(Fence)}, MaxList),
        education \in ListsOf({EducationEntry}, MaxList) }

\* the one-key records {"name": s}
NameRecords == { PyDict(<<SnapshotKeys[1]>>, <<PyStr(s)>>) : s \in StrValues }

\* ```json\n<text>\n```
FencedJson(text) == FenceJson \o <<NL>> \o text \o <<NL>> \o Fence

\* ```\n<text>\n```
FencedBare(text) == Fence \o <<NL>> \o text \o <<NL>> \o Fence

\* {"name":"A"}, the compact serialization of the record {"name": "A"}
CompactNameA == <<"{", QT, "n", "a", "m", "e", QT, ":", QT, "A", QT, "}">>

\* (record, text) pairs: a record and a response carrying its serialization
SerializedInputs ==
    UNION { { [data |-> x, text |-> json_dumps(x)],
              [data |-> x, text |-> FencedJson(json_dumps(x))],
              [data |-> x, text |-> FencedBare(json_dumps(x))] } :
            x \in SnapshotRecords \cup NameRecords }
    \cup
    { [data |-> PyDict(<<SnapshotKeys[1]>>, <<PyStr(<<"A">>)>>), text |-> w] :
        w \in {CompactNameA, FencedJson(CompactNameA), FencedBare(CompactNameA)} }

\* responses that are not the serialization of a known record
ChunkInputs == { [data |-> PyNone, text |-> t] : t \in ChunkTexts(MaxChunks) }

ParseInit ==
    /\ \E inp \in ChunkInputs \cup SerializedInputs :
          /\ data = inp.data
          /\ json_string = inp.text
    /\ cleaned = <<>>
    /\ parse_result = [value |-> PyNone, error |-> PyNone]
    /\ parse_pc = "call"

\* parsed_json, error = parse_json_safely(json_string)
ParseCall ==
    /\ parse_pc = "call"
    /\ cleaned' = Cleaned(json_string)
    /\ parse_result' = parse_json_safely(json_string)
    /\ parse_pc' = "returned"
    /\ UNCHANGED <<data, json_string>>


-----------------------------------------------------------------------------
(* extract_text_from_pdf and the sidebar that calls it *)

\* what page.extract_text() does on one page: returns text, or raises
PageText(text) == [raises |-> FALSE, text |-> text]
PageRaises == [raises |-> TRUE, text |-> <<>>]

PageChoices ==
    { PageText(<<>>), PageText(<<"a">>), PageText(<<SP, "b">>),
      PageText(<<"c", NL>>), PageText(<<SP>>), PageRaises }

\* the value of st.file_uploader: None, or a file PdfReader opens or rejects
NoFile == [present |-> FALSE, readable |-> FALSE, pages |-> <<>>]
PdfFile(readable, pages) == [present |-> TRUE, readable |-> readable, pages |-> pages]

UploadChoices ==
    {NoFile} \cup { PdfFile(r, ps) : r \in BOOLEAN, ps \in ListsOf(PageChoices, MaxPages) }

ErrReadingPdf == "Error reading PDF"
ErrCouldNotExtract == "Could not extract text from PDF"

\* the loop over pdf_reader.pages: text after the pages from the k-th on,
\* or raised = TRUE when one of them raises
RECURSIVE ReadPages(_, _, _)
ReadPages(pages, k, text) ==
    IF k > Len(pages) THEN [raised |-> FALSE, text |-> text]
    ELSE IF pages[k].raises THEN [raised |-> TRUE, text |-> <<>>]
    ELSE IF pages[k].text /= <<>>
         THEN ReadPages(pages, k + 1, text \o pages[k].text \o <<NL>>)
         ELSE ReadPages(pages, k + 1, text)

\* extract_text_from_pdf(file): the text returned and the st.error calls made
extract_text_from_pdf(file) ==
    LET r == ReadPages(file.pages, 1, <<>>)
    IN IF ~file.readable \/ r.raised
       THEN [text |-> <<>>, errors |-> <<ErrReadingPdf>>]
       ELSE [text |-> Strip(r.text), errors |-> <<>>]

\* the sidebar's "Step 1": cv_text and every st.error call it leads to
SidebarUpload(file) ==
    IF ~file.present THEN [text |-> <<>>, errors |-> <<>>]
    ELSE LET r == extract_text_from_pdf(file)
         IN IF r.text /= <<>> THEN r
            ELSE [text |-> r.text, errors |-> Append(r.errors, ErrCouldNotExtract)]

PdfInit ==
    /\ uploaded_file \in UploadChoices
    /\ extracted = <<>>
    /\ st_errors = <<>>
    /\ pdf_pc = "upload"

\* one pass over the sidebar's "Step 1" with the uploaded file
SidebarExtract ==
    /\ pdf_pc = "upload"
    /\ extracted' = SidebarUpload(uploaded_file).text
    /\ st_errors' = SidebarUpload(uploaded_file).errors
    /\ pdf_pc' = "done"
    /\ UNCHANGED uploaded_file


-----------------------------------------------------------------------------
(* call_gemini_api *)

\* what client.models.generate_content does on one call: a response with
\* text, a response whose .text is None (no candidate, no text part), or an
\* exception
ReplyText(text) == [kind |-> "text", text |-> text]
ReplyNoText == [kind |-> "no_text", text |-> <<>>]
ReplyRaises(reason) == [kind |-> "raises", text |-> reason]

ApiErrorPrefix == <<"A", "P", "I", SP, "E", "r", "r", "o", "r", ":", SP>>

\* the value call_gemini_api returns
call_gemini_api(reply) ==
    IF reply.kind = "raises" THEN PyStr(ApiErrorPrefix \o reply.text)
    ELSE IF reply.kind = "no_text" THEN PyNone
    ELSE PyStr(reply.text)

Failures == { ReplyRaises(<<"q", "u", "o", "t", "a">>) }

\* replies to the fit-score and interview-kit prompts (markdown)
MarkdownReplies ==
    { ReplyText(<<"#", SP, "m", "d">>), ReplyNoText } \cup Failures

\* replies to the snapshot prompt
SnapshotReplies ==
    { ReplyText(CompactNameA),
      ReplyText(FencedJson(CompactNameA)),
      ReplyText(<<"{", "}">>),
      ReplyText(<<"n", "u", "l", "l">>),
      ReplyText(<<"[", "1", "]">>),
      ReplyText(<<"s", "o", "r", "r", "y">>),
      ReplyNoText } \cup Failures

-----------------------------------------------------------------------------
(* The Streamlit script: sidebar inputs, the analysis run block, the       *)
(* display gate.  One script run goes from the top of the file to the      *)
(* bottom; Streamlit starts one on every user interaction and stops the    *)
(* one in progress at its next st.* call or st.session_state access.       *)

\* what the user can have in the job description text area
JdChoices == { <<>>, <<SP, NL>>, <<"d">>, <<SP, "q">> }

\* what the user can have in the file uploader
SessionUploads ==
    { NoFile,
      PdfFile(FALSE, <<>>),
      PdfFile(TRUE, <<PageText(<<SP>>)>>),
      PdfFile(TRUE, <<PageText(<<"a">>)>>) }

\* RunGuard with jd_text in place of jd_text.strip()
RunGuardNoStrip(button, cv, jd) == button /\ cv /= <<>> /\ jd /= <<>>

\* the condition of `if analyze_button and cv_text and jd_text.strip():`
RunGuard(button, cv, jd) == button /\ cv /= <<>> /\ Strip(jd) /= <<>>

SessionInit ==
    /\ analysis_complete = FALSE
    /\ fit_score_result = PyStr(<<>>)
    /\ snapshot_result = PyStr(<<>>)
    /\ interview_kit_result = PyStr(<<>>)
    /\ snapshot_json = PyNone
    /\ pc = "idle"
    /\ cv_text = <<>>
    /\ jd_text = <<>>
    /\ analyze_button = FALSE
    /\ run = 0
    /\ calls = <<>>
    /\ origin = [fit |-> 0, snapshot |-> 0, json |-> 0, kit |-> 0]
    /\ ended = "none"

Called(stage, reply, value) ==
    [stage |-> stage, cv |-> cv_text, jd |-> jd_text, reply |-> reply, value |-> value]

\* a script run whose analysis block is skipped: the sidebar is evaluated
\* and the script falls through to the display gate
ScriptRunDisplayOnly ==
    /\ pc \in {"idle", "stopped"}
    /\ \E file \in SessionUploads, jd \in JdChoices, button \in BOOLEAN :
          /\ ~RunGuard(button, SidebarUpload(file).text, jd)
          /\ cv_text' = SidebarUpload(file).text
          /\ jd_text' = jd
          /\ analyze_button' = button
    /\ pc' = "idle"
    /\ UNCHANGED <<analysis_complete, fit_score_result, snapshot_result,
                   interview_kit_result, snapshot_json, run, calls, origin, ended>>

\* a script run that enters the analysis block
ScriptRunAnalysis ==
    /\ pc \in {"idle", "stopped"}
    /\ run < MaxRuns
    /\ \E file \in SessionUploads, jd \in JdChoices, button \in BOOLEAN :
          /\ RunGuard(button, SidebarUpload(file).text, jd)
          /\ cv_text' = SidebarUpload(file).text
          /\ jd_text' = jd
          /\ analyze_button' = button
    /\ pc' = "score"
    /\ run' = run + 1
    /\ calls' = <<>>
    /\ ended' = "running"
    /\ UNCHANGED <<analysis_complete, fit_score_result, snapshot_result,
                   interview_kit_result, snapshot_json, origin>>

\* st.session_state.fit_score_result = generate_fit_score(cv_text, jd_text)
GenerateFitScore ==
    /\ pc = "score"
    /\ \E reply \in MarkdownReplies :
          /\ fit_score_result' = call_gemini_api(reply)
          /\ calls' = Append(calls, Called("score", reply.kind, call_gemini_api(reply)))
    /\ origin' = [origin EXCEPT !.fit = run]
    /\ pc' = "snapshot"
    /\ UNCHANGED <<analysis_complete, snapshot_result, interview_kit_result,
                   snapshot_json, cv_text, jd_text, analyze_button, run, ended>>

\* st.session_state.snapshot_result = generate_candidate_snapshot(cv_text)
GenerateSnapshot ==
    /\ pc = "snapshot"
    /\ \E reply \in SnapshotReplies :
          /\ snapshot_result' = call_gemini_api(reply)
          /\ calls' = Append(calls, Called("snapshot", reply.kind, call_gemini_api(reply)))
    /\ origin' = [origin EXCEPT !.snapshot = run]
    /\ pc' = "parse"
    /\ UNCHANGED <<analysis_complete, fit_score_result, interview_kit_result,
                   snapshot_json, cv_text, jd_text, analyze_button, run, ended>>

\* parsed_json, error = parse_json_safely(st.session_state.snapshot_result)
\* st.session_state.snapshot_json = parsed_json
\* (None has no strip(): the AttributeError ends the script run)
ParseSnapshot ==
    /\ pc = "parse"
    /\ IF snapshot_result.t = "None"
       THEN /\ pc' = "stopped"
            /\ ended' = "aborted"
            /\ UNCHANGED <<snapshot_json, calls, origin>>
       ELSE LET r == parse_json_safely(snapshot_result.s)
            IN /\ snapshot_json' = r.value
               /\ calls' = Append(calls,
                                  Called("parse",
                                         IF r.error = PyNone THEN "ok" ELSE "decode_error",
                                         r.value))
               /\ origin' = [origin EXCEPT !.json = run]
               /\ pc' = "interview"
               /\ UNCHANGED ended
    /\ UNCHANGED <<analysis_complete, fit_score_result, snapshot_result,
                   interview_kit_result, cv_text, jd_text, analyze_button, run>>

\* st.session_state.interview_kit_result = generate_interview_kit(cv_text, jd_text)
GenerateInterviewKit ==
    /\ pc = "interview"
    /\ \E reply \in MarkdownReplies :
          /\ interview_kit_result' = call_gemini_api(reply)
          /\ calls' = Append(calls, Called("interview", reply.kind, call_gemini_api(reply)))
    /\ origin' = [origin EXCEPT !.kit = run]
    /\ pc' = "complete"
    /\ UNCHANGED <<analysis_complete, fit_score_result, snapshot_result,
                   snapshot_json, cv_text, jd_text, analyze_button, run, ended>>

\* st.session_state.analysis_complete = True, then on to the display gate
MarkComplete ==
    /\ pc = "complete"
    /\ analysis_complete' = TRUE
    /\ ended' = "complete"
    /\ pc' = "idle"
    /\ UNCHANGED <<fit_score_result, snapshot_result, interview_kit_result,
                   snapshot_json, cv_text, jd_text, analyze_button, run, calls, origin>>

\* a user interaction while the analysis block runs: Streamlit stops the
\* script at its next progress_bar / st.session_state access
Interrupt ==
    /\ pc \in {"score", "snapshot", "parse", "interview", "complete"}
    /\ pc' = "stopped"
    /\ ended' = "interrupted"
    /\ UNCHANGED <<analysis_complete, fit_score_result, snapshot_result,
                   interview_kit_result, snapshot_json, cv_text, jd_text,
                   analyze_button, run, calls, origin>>

\* what tab 2 shows once a script run has reached the display gate
SnapshotTab ==
    IF ~analysis_complete THEN "hidden"
    ELSE IF ~Truthy(snapshot_json) THEN "raw"
    ELSE IF snapshot_json.t = "dict" THEN "structured"
    ELSE "exception"

-----------------------------------------------------------------------------
(* Specifications *)

ParseIdle ==
    /\ data = PyNone
    /\ json_string = <<>>
    /\ cleaned = <<>>
    /\ parse_result = [value |-> PyNone, error |-> PyNone]
    /\ parse_pc = "idle"

PdfIdle ==
    /\ uploaded_file = NoFile
    /\ extracted = <<>>
    /\ st_errors = <<>>
    /\ pdf_pc = "idle"

\* the session: script runs, analysis runs, interruptions
Init == SessionInit /\ ParseIdle /\ PdfIdle

Next ==
    \/ ScriptRunDisplayOnly /\ UNCHANGED <<parseVars, pdfVars>>
    \/ ScriptRunAnalysis /\ UNCHANGED <<parseVars, pdfVars>>
    \/ GenerateFitScore /\ UNCHANGED <<parseVars, pdfVars>>
    \/ GenerateSnapshot /\ UNCHANGED <<parseVars, pdfVars>>
    \/ ParseSnapshot /\ UNCHANGED <<parseVars, pdfVars>>
    \/ GenerateInterviewKit /\ UNCHANGED <<parseVars, pdfVars>>
    \/ MarkComplete /\ UNCHANGED <<parseVars, pdfVars>>
    \/ Interrupt /\ UNCHANGED <<parseVars, pdfVars>>

Spec == Init /\ [][Next]_vars

\* parse_json_safely on every raw response of the bounded input set
InitParse == SessionInit /\ ParseInit /\ PdfIdle

NextParse == ParseCall /\ UNCHANGED <<orchVars, pdfVars>>

SpecParse == InitParse /\ [][NextParse]_vars

\* the sidebar's extraction on every upload of the bounded input set
InitPdf == SessionInit /\ ParseIdle /\ PdfInit

NextPdf == SidebarExtract /\ UNCHANGED <<orchVars, parseVars>>

SpecPdf == InitPdf /\ [][NextPdf]_vars


-----------------------------------------------------------------------------
(* Properties *)

Running == pc \in {"score", "snapshot", "parse", "interview", "complete"}

\* the analysis run last started has ended by itself (it ran to the end or
\* an exception ended it), not by the user's interruption
RunEnded == ended \in {"complete", "aborted"}

StagesCalled == [i \in 1..Len(calls) |-> calls[i].stage]

SlotOf(stage) ==
    CASE stage = "score" -> fit_score_result
      [] stage = "snapshot" -> snapshot_result
      [] stage = "parse" -> snapshot_json
      [] stage = "interview" -> interview_kit_result

IsApiError(v) == v.t = "str" /\ StartsWith(v.s, ApiErrorPrefix)

\* C1: once an analysis run is marked complete, fit_score_result,
\* snapshot_result and interview_kit_result each hold a text value (never
\* None), whatever the three model calls did.
C1_AllSlotsPopulated ==
    ended = "complete" =>
        /\ fit_score_result.t = "str"
        /\ snapshot_result.t = "str"
        /\ interview_kit_result.t = "str"

\* C2: every model call of a run is made with a CV text and a JD text that
\* are non-empty after trimming, and the analysis block is only ever
\* entered with such texts, whatever the button's state.
C2_ModelCalledOnlyWithBothTexts ==
    /\ \A i \in 1..Len(calls) :
          Strip(calls[i].cv) /= <<>> /\ Strip(calls[i].jd) /= <<>>
    /\ Running => Strip(cv_text) /= <<>> /\ Strip(jd_text) /= <<>>

\* C2 witness: after a full run, a script run with the button pressed, a CV
\* loaded and a whitespace-only JD went past the analysis block.
C2_Witness ==
    /\ pc = "idle"
    /\ analyze_button
    /\ cv_text /= <<>>
    /\ jd_text = <<SP, NL>>
    /\ Len(calls) = 4
    /\ \A i \in 1..4 : calls[i].jd = <<"d">>

\* C3: a failed model call leaves the error text in its own slot only; the
\* other two calls still run and keep their own responses, and the run
\* ends Complete.
C3_FailureIsolated ==
    /\ \A i \in 1..Len(calls) :
          calls[i].reply = "raises" => IsApiError(SlotOf(calls[i].stage))
    /\ (RunEnded /\ \E i \in 1..Len(calls) : calls[i].reply = "raises") =>
          /\ ended = "complete"
          /\ analysis_complete
          /\ StagesCalled = <<"score", "snapshot", "parse", "interview">>
          /\ \A i \in 1..Len(calls) : SlotOf(calls[i].stage) = calls[i].value

\* C4: whenever a script run shows a result (analysis_complete is set at the
\* display gate), the fit score, the snapshot text, its parsed record and
\* the interview kit were all written by the same analysis run.
C4_OneRequestPerResult ==
    (pc = "idle" /\ analysis_complete) =>
        /\ origin.fit = origin.snapshot
        /\ origin.snapshot = origin.json
        /\ origin.json = origin.kit

\* the texts left when at most one opening marker is taken from the front
OneOpenerRemoved(t) ==
    {t} \cup (IF StartsWith(t, FenceJson) THEN {DropFirst(t, 7)} ELSE {})
        \cup (IF StartsWith(t, Fence) THEN {DropFirst(t, 3)} ELSE {})

\* ... and then at most one closing marker from the end
OneFenceEachSideRemoved(t) ==
    UNION { {f} \cup (IF EndsWith(f, Fence) THEN {DropLast(f, 3)} ELSE {}) :
            f \in OneOpenerRemoved(t) }

\* C5: the text handed to the JSON parser is the trimmed input with at most
\* one opening marker removed from its front and at most one closing marker
\* from its end, trimmed again; without markers it is the trimmed input.
C5_AtMostOneFenceEachSide ==
    parse_pc = "returned" =>
        LET trimmed == Strip(json_string)
        IN /\ cleaned \in {Strip(t) : t \in OneFenceEachSideRemoved(trimmed)}
           /\ (~StartsWith(trimmed, Fence) /\ ~EndsWith(trimmed, Fence)) =>
                 cleaned = trimmed

\* C6: parse_json_safely returns either (a JSON object, None) or
\* (None, an error): never (None, None), never a value that is no object.
C6_RecordXorError ==
    parse_pc = "returned" =>
        \/ parse_result.value.t = "dict" /\ parse_result.error = PyNone
        \/ parse_result.value = PyNone /\ parse_result.error /= PyNone

\* C7: when the snapshot text does not parse, the run still completes with
\* a null record, the raw text unchanged in snapshot_result and shown in
\* the tab, and the interview stage run; and the raw text is shown only
\* when parsing failed.
C7_RawFallbackIffParseFailed ==
    (pc = "idle" /\ ended = "complete") =>
        /\ calls[3].reply = "decode_error" =>
              /\ snapshot_json = PyNone
              /\ snapshot_result = calls[2].value
              /\ SnapshotTab = "raw"
              /\ calls[4].stage = "interview"
        /\ SnapshotTab = "raw" => calls[3].reply = "decode_error"

\* C8: a run calls the stages in the order Score, Snapshot, (parse),
\* Interview, each once; it is marked complete only after all of them; and
\* every run that ends has made all three model calls.
C8_ThreeCallsInOrder ==
    /\ StagesCalled =
          SubSeq(<<"score", "snapshot", "parse", "interview">>, 1, Len(calls))
    /\ ended = "complete" => Len(calls) = 4
    /\ RunEnded => Len(calls) = 4

\* C9: parsing the serialization of a snapshot-shaped record, bare or
\* wrapped in one ```json / ``` opening fence line and one closing fence
\* line, returns that record and no error.
C9_RoundTrip ==
    (parse_pc = "returned" /\ data.t = "dict") =>
        parse_result = [value |-> data, error |-> PyNone]

\* C9 witness: a full snapshot record whose name holds a quote, with two
\* skills and one education entry, came back from its bare-fenced
\* serialization.
C9_Witness ==
    /\ parse_pc = "returned"
    /\ data.t = "dict"
    /\ Len(data.keys) = Len(SnapshotKeys)
    /\ data.kids[1] = PyStr(<<"a", QT, "b">>)
    /\ Len(data.kids[9].kids) = 2
    /\ Len(data.kids[11].kids) = 1
    /\ json_string = FencedBare(json_dumps(data))
    /\ parse_result.value = data

\* the page texts from the k-th page on, in order, one newline between two
\* of them, pages without text left out
RECURSIVE JoinedPages(_, _)
JoinedPages(pages, k) ==
    IF k > Len(pages) THEN <<>>
    ELSE LET rest == JoinedPages(pages, k + 1)
         IN IF pages[k].text = <<>> THEN rest
            ELSE IF rest = <<>> THEN pages[k].text
            ELSE pages[k].text \o <<NL>> \o rest

Extractable(file) ==
    file.present /\ file.readable /\ \A k \in 1..Len(file.pages) : ~file.pages[k].raises

\* C10: the extracted text is the page texts in order joined by single
\* newlines, empty pages contributing nothing; a zero-page document gives
\* the empty text with no error reported, and a failed extraction reports one.
C10_PagesJoinedEmptyIsNoError ==
    pdf_pc = "done" =>
        /\ Extractable(uploaded_file) =>
              extracted = JoinedPages(uploaded_file.pages, 1)
        /\ (Extractable(uploaded_file) /\ uploaded_file.pages = <<>>) =>
              extracted = <<>> /\ st_errors = <<>>
        /\ (uploaded_file.present /\ ~Extractable(uploaded_file)) =>
              st_errors /= <<>>


====
